---- MODULE Spec2Model ----
(***************************************************************************)
(* Model of src/peak_type_labeling.py: the NERC holiday calendar, the      *)
(* holiday test is_nerc_holiday, the 5x16 classifier is_5x16_peak and the  *)
(* DataFrame annotator apply_peak_offpeak.                                 *)
(*                                                                         *)
(* Python values are records of one shape (kind, the datetime fields, a    *)
(* printed value), so that cells of different Python types can sit in one  *)
(* column.  A call's outcome is a record [exc, ret]: exc = "None" when the *)
(* call returned ret, otherwise the name of the exception it raised.       *)
(* Timestamps are compared the way pandas compares them, by their instant  *)
(* (here: minutes since the start of ordinal day 0).                       *)
(***************************************************************************)
EXTENDS Integers, Sequences, FiniteSets, TLC

VARIABLES
    date,            \* argument of is_nerc_holiday / is_5x16_peak
    holiday_result,  \* outcome of is_nerc_holiday(date)
    peak_bool,       \* outcome of is_5x16_peak(date, return_text=False)
    peak_text,       \* outcome of is_5x16_peak(date, return_text=True)
    year,            \* year the holiday rules are resolved for
    resolved,        \* the six rules' dates (ordinals) for that year
    df,              \* the DataFrame object handed to apply_peak_offpeak
    df_in,           \* its content when the call was entered
    call             \* the last apply_peak_offpeak call: arguments and outcome

vars == <<date, holiday_result, peak_bool, peak_text, year, resolved, df, df_in, call>>

----------------------------------------------------------------------------
(* Bounds of the model. *)

\* the classifier is explored over the calendar years 2020..2020+YearSpan
YearSpan == 4
\* the rule table is resolved for the years 1970..1970+CalYearSpan
CalYearSpan == 230
\* largest number of rows of a DataFrame
MaxRows == 2

Years == 2020..(2020 + YearSpan)
CalYears == 1970..(1970 + CalYearSpan)
Hours == 0..23
\* the first and the last minute of an hour
Minutes == {0, 59}

----------------------------------------------------------------------------
(* Python values and call outcomes. *)

Obj(k, y, m, d, h, mi, v) ==
    [kind |-> k, year |-> y, month |-> m, day |-> d, hour |-> h, minute |-> mi, val |-> v]

NoneObj == Obj("None", 0, 0, 0, 0, 0, "None")
Bool(b) == Obj("bool", 0, 0, 0, 0, 0, IF b THEN "True" ELSE "False")
Str(s) == Obj("str", 0, 0, 0, 0, 0, s)
IntObj(s) == Obj("int", 0, 0, 0, 0, 0, s)
Timestamp(y, m, d, h, mi) == Obj("Timestamp", y, m, d, h, mi, "")

Return(v) == [exc |-> "None", ret |-> v]
Raise(e) == [exc |-> e, ret |-> NoneObj]
NoCall == [exc |-> "NoCall", ret |-> NoneObj]

----------------------------------------------------------------------------
(* The proleptic Gregorian calendar of datetime. *)

IsLeap(y) == (y % 4 = 0) /\ ((y % 100 # 0) \/ (y % 400 = 0))

DaysInMonth(y, m) ==
    IF m = 2 THEN (IF IsLeap(y) THEN 29 ELSE 28)
    ELSE IF m \in {4, 6, 9, 11} THEN 30 ELSE 31

DaysBeforeYear(y) ==
    LET p == y - 1 IN p * 365 + (p \div 4) - (p \div 100) + (p \div 400)

DaysBeforeMonth(y, m) ==
    <<0, 31, 59, 90, 120, 151, 181, 212, 243, 273, 304, 334>>[m]
        + (IF m > 2 /\ IsLeap(y) THEN 1 ELSE 0)

\* date.toordinal(): 0001-01-01 is day 1
toordinal(y, m, d) == DaysBeforeYear(y) + DaysBeforeMonth(y, m) + d

\* weekday of an ordinal day: Monday = 0 .. Sunday = 6
weekday_of(ord) == (ord + 6) % 7

\* date.weekday()
weekday(ts) == weekday_of(toordinal(ts.year, ts.month, ts.day))

\* the instant of a timestamp, in minutes
value(ts) == (toordinal(ts.year, ts.month, ts.day) * 24 + ts.hour) * 60 + ts.minute

\* the instant of midnight of an ordinal day
midnight(ord) == ord * 24 * 60

\* date.replace(year=y): the same month, day and time in year y
replace_year(ts, y) ==
    IF ts.day <= DaysInMonth(y, ts.month)
    THEN Return(Timestamp(y, ts.month, ts.day, ts.hour, ts.minute))
    ELSE Raise("ValueError")

----------------------------------------------------------------------------
(* The holiday rules and how pandas resolves them. *)

\* pandas' next_monday in place of nearest_workday: Saturday moves to Monday
next_monday(ord) ==
    IF weekday_of(ord) = 5 THEN ord + 2
    ELSE IF weekday_of(ord) = 6 THEN ord + 1
    ELSE ord

\* nearest_workday: Saturday moves to Friday, Sunday to Monday
nearest_workday(ord) ==
    IF weekday_of(ord) = 5 THEN ord - 1
    ELSE IF weekday_of(ord) = 6 THEN ord + 1
    ELSE ord

\* DateOffset(weekday=wd(n), weeks=w); weekday = -1 when none is given
DateOffset(wd, n, w) == [weekday |-> wd, n |-> n, weeks |-> w]

\* a date plus a DateOffset: the relative days first, then the move to the
\* n-th given weekday on or after (n > 0) or on or before (n < 0) the date
apply_offset(ord, off) ==
    LET ret == ord + 7 * off.weeks
        nth == IF off.n < 0 THEN 0 - off.n ELSE off.n
        jump == (nth - 1) * 7
    IN  IF off.weekday < 0 THEN ret
        ELSE IF off.n > 0
             THEN ret + jump + ((7 - weekday_of(ret) + off.weekday) % 7)
             ELSE ret - (jump + ((weekday_of(ret) - off.weekday) % 7))

RECURSIVE apply_offsets(_, _)
apply_offsets(ord, offs) ==
    IF offs = <<>> THEN ord
    ELSE apply_offsets(apply_offset(ord, Head(offs)), Tail(offs))

Holiday(name, month, day, observance, offset) ==
    [name |-> name, month |-> month, day |-> day,
     observance |-> observance, offset |-> offset]

\* the rule table with Thanksgiving four weeks after the first Thursday
rules_thanksgiving_weeks4 ==
    << Holiday("New Year's Day", 1, 1, "nearest_workday", <<>>),
       Holiday("Memorial Day", 5, 31, "None", <<DateOffset(0, -1, 0)>>),
       Holiday("Independence Day", 7, 4, "nearest_workday", <<>>),
       Holiday("Labor Day", 9, 1, "None", <<DateOffset(0, 1, 0)>>),
       Holiday("Thanksgiving", 11, 1, "None",
               <<DateOffset(3, 1, 0), DateOffset(-1, 1, 4)>>),
       Holiday("Christmas Day", 12, 25, "nearest_workday", <<>>) >>

\* NERCHolidayCalendar.rules
rules ==
    << Holiday("New Year's Day", 1, 1, "nearest_workday", <<>>),
       Holiday("Memorial Day", 5, 31, "None", <<DateOffset(0, -1, 0)>>),
       Holiday("Independence Day", 7, 4, "nearest_workday", <<>>),
       Holiday("Labor Day", 9, 1, "None", <<DateOffset(0, 1, 0)>>),
       Holiday("Thanksgiving", 11, 1, "None",
               <<DateOffset(3, 1, 0), DateOffset(-1, 1, 3)>>),
       Holiday("Christmas Day", 12, 25, "nearest_workday", <<>>) >>

\* Holiday._apply_rule on the rule's reference date of year y
rule_date(rule, y) ==
    LET ref == toordinal(y, rule.month, rule.day)
    IN  IF rule.observance = "nearest_workday" THEN nearest_workday(ref)
        ELSE apply_offsets(ref, rule.offset)

\* Holiday.dates(start, end): the rule resolved for the years
\* start.year-1 .. end.year+1, kept when start <= holiday <= end
rule_dates(rule, start, end) ==
    LET lo == value(start)
        hi == value(end)
    IN  { h \in { midnight(rule_date(rule, y)) : y \in (start.year - 1)..(end.year + 1) } :
            lo <= h /\ h <= hi }

\* AbstractHolidayCalendar.holidays(start, end): the instants of the index
holidays(start, end) ==
    UNION { rule_dates(rules[i], start, end) : i \in 1..Len(rules) }

----------------------------------------------------------------------------
(* The three functions of the module. *)

\* the holiday test against the rules resolved for the date's own year only
is_nerc_holiday_own_year(d) ==
    IF d.kind # "Timestamp" THEN Raise("AttributeError")
    ELSE Return(Bool(value(d) \in
            { midnight(rule_date(rules[i], d.year)) : i \in 1..Len(rules) }))

is_nerc_holiday(d) ==
    IF d.kind # "Timestamp" THEN Raise("AttributeError")
    ELSE LET start == replace_year(d, d.year - 1)
             end == replace_year(d, d.year + 1)
         IN  IF start.exc # "None" THEN start
             ELSE IF end.exc # "None" THEN end
             ELSE Return(Bool(value(d) \in holidays(start.ret, end.ret)))

\* the classifier with the text of the off-peak branch mistyped
is_5x16_peak_text_swapped(d, return_text) ==
    LET h == is_nerc_holiday(d)
    IN  IF h.exc # "None" THEN h
        ELSE IF h.ret = Bool(TRUE) \/ weekday(d) >= 5 \/ ~(8 <= d.hour /\ d.hour <= 23)
             THEN Return(IF return_text THEN Str("Peak") ELSE Bool(FALSE))
             ELSE Return(IF return_text THEN Str("Peak") ELSE Bool(TRUE))

is_5x16_peak(d, return_text) ==
    LET h == is_nerc_holiday(d)
    IN  IF h.exc # "None" THEN h
        ELSE IF h.ret = Bool(TRUE) \/ weekday(d) >= 5 \/ ~(8 <= d.hour /\ d.hour <= 23)
             THEN Return(IF return_text THEN Str("Off-Peak") ELSE Bool(FALSE))
             ELSE Return(IF return_text THEN Str("Peak") ELSE Bool(TRUE))

----------------------------------------------------------------------------
(* DataFrames: a sequence of named columns of equal length. *)

Column(name, values) == [name |-> name, values |-> values]

columns(frame) == [i \in 1..Len(frame) |-> frame[i].name]

has_column(frame, name) == \E i \in 1..Len(frame) : frame[i].name = name

\* df[name]
getitem(frame, name) ==
    frame[CHOOSE i \in 1..Len(frame) : frame[i].name = name].values

\* df[name] = values: an existing column is replaced in place, a new one is
\* appended after the others
setitem(frame, name, values) ==
    IF has_column(frame, name)
    THEN [i \in 1..Len(frame) |->
            IF frame[i].name = name THEN Column(name, values) ELSE frame[i]]
    ELSE Append(frame, Column(name, values))

\* Series.apply(lambda x: is_5x16_peak(x, return_text=return_text)): the rows
\* in order; the first exception ends the call
RECURSIVE series_apply(_, _)
series_apply(values, return_text) ==
    IF values = <<>> THEN [exc |-> "None", ret |-> <<>>]
    ELSE LET first == is_5x16_peak(Head(values), return_text)
         IN  IF first.exc # "None" THEN [exc |-> first.exc, ret |-> <<>>]
             ELSE LET rest == series_apply(Tail(values), return_text)
                  IN  IF rest.exc # "None" THEN rest
                      ELSE [exc |-> "None", ret |-> <<first.ret>> \o rest.ret]

\* the rows classified one by one into the column, stopping at the first
\* exception: the rows from there on are left empty
RECURSIVE rows_until_error(_, _)
rows_until_error(values, return_text) ==
    IF values = <<>> THEN <<>>
    ELSE LET first == is_5x16_peak(Head(values), return_text)
         IN  IF first.exc # "None" THEN [i \in 1..Len(values) |-> NoneObj]
             ELSE <<first.ret>> \o rows_until_error(Tail(values), return_text)

\* the annotator filling the column row by row
apply_peak_offpeak_row_by_row(frame, datetime_column, return_text) ==
    IF ~has_column(frame, datetime_column)
    THEN [exc |-> "KeyError", df |-> frame]
    ELSE LET applied == series_apply(getitem(frame, datetime_column), return_text)
         IN  [exc |-> applied.exc,
              df |-> setitem(frame, "Peak_OffPeak",
                             rows_until_error(getitem(frame, datetime_column), return_text))]

\* the annotator calling is_5x16_peak(x) with the default return_text
apply_peak_offpeak_default_text(frame, datetime_column, return_text) ==
    IF ~has_column(frame, datetime_column)
    THEN [exc |-> "KeyError", df |-> frame]
    ELSE LET applied == series_apply(getitem(frame, datetime_column), FALSE)
         IN  IF applied.exc # "None"
             THEN [exc |-> applied.exc, df |-> frame]
             ELSE [exc |-> "None", df |-> setitem(frame, "Peak_OffPeak", applied.ret)]

\* apply_peak_offpeak(df, datetime_column, return_text): the outcome and the
\* content of the DataFrame object after the call
apply_peak_offpeak(frame, datetime_column, return_text) ==
    IF ~has_column(frame, datetime_column)
    THEN [exc |-> "KeyError", df |-> frame]
    ELSE LET applied == series_apply(getitem(frame, datetime_column), return_text)
         IN  IF applied.exc # "None"
             THEN [exc |-> applied.exc, df |-> frame]
             ELSE [exc |-> "None", df |-> setitem(frame, "Peak_OffPeak", applied.ret)]

----------------------------------------------------------------------------
(* Inputs. *)

ValidDate(y, m, d) == d <= DaysInMonth(y, m)

Dates ==
    { Timestamp(y, m, d, h, mi) :
        y \in Years, m \in 1..12, d \in 1..31, h \in Hours, mi \in Minutes }

Timestamps == { t \in Dates : ValidDate(t.year, t.month, t.day) }

\* cells of a datetime column: a peak hour, a holiday, a weekend, an early
\* hour, a leap day, and a cell that is no timestamp
TimestampCells ==
    { Timestamp(2024, 7, 3, 10, 0), Timestamp(2024, 7, 4, 10, 0),
      Timestamp(2024, 7, 6, 10, 0), Timestamp(2024, 7, 3, 7, 59),
      Timestamp(2024, 2, 29, 10, 0), Str("n/a") }

LoadCells == { IntObj("7") }

PriorCells == { Timestamp(2024, 7, 5, 9, 0), Str("Off-Peak") }

CellsOf(name) ==
    IF name = "timestamp" THEN TimestampCells
    ELSE IF name = "load" THEN LoadCells
    ELSE PriorCells

Layouts ==
    { <<"timestamp">>, <<"timestamp", "load">>, <<"load", "timestamp">>,
      <<"timestamp", "Peak_OffPeak">>, <<"Peak_OffPeak", "load">> }

ColumnNames == { "timestamp", "load", "Peak_OffPeak", "missing" }

SeqsOfLen(S, n) == [1..n -> S]

\* the frames of n rows with one column, or two
Frames1(a, n) ==
    { << Column(a, va) >> : va \in SeqsOfLen(CellsOf(a), n) }

Frames2(a, b, n) ==
    { << Column(a, va), Column(b, vb) >> :
        va \in SeqsOfLen(CellsOf(a), n), vb \in SeqsOfLen(CellsOf(b), n) }

DataFrames ==
    UNION { IF Len(layout) = 1
            THEN Frames1(layout[1], n)
            ELSE Frames2(layout[1], layout[2], n) :
                layout \in Layouts, n \in 1..MaxRows }

NoCallDF == [datetime_column |-> "", return_text |-> FALSE, exc |-> "NoCall"]

----------------------------------------------------------------------------
(* The classifier on one timestamp. *)

Init ==
    /\ date \in Timestamps
    /\ holiday_result = NoCall
    /\ peak_bool = NoCall
    /\ peak_text = NoCall
    /\ year = 0
    /\ resolved = <<>>
    /\ df = <<>>
    /\ df_in = <<>>
    /\ call = NoCallDF

Is5x16PeakBool ==
    /\ peak_bool = NoCall
    /\ peak_bool' = is_5x16_peak(date, FALSE)
    /\ UNCHANGED <<date, holiday_result, peak_text, year, resolved, df, df_in, call>>

Is5x16PeakText ==
    /\ peak_text = NoCall
    /\ peak_text' = is_5x16_peak(date, TRUE)
    /\ UNCHANGED <<date, holiday_result, peak_bool, year, resolved, df, df_in, call>>

Next == Is5x16PeakBool \/ Is5x16PeakText

Spec == Init /\ [][Next]_vars

----------------------------------------------------------------------------
(* The holiday test on one timestamp. *)

InitHoliday == Init

IsNercHoliday ==
    /\ holiday_result = NoCall
    /\ holiday_result' = is_nerc_holiday(date)
    /\ UNCHANGED <<date, peak_bool, peak_text, year, resolved, df, df_in, call>>

NextHoliday == IsNercHoliday

SpecHoliday == InitHoliday /\ [][NextHoliday]_vars

----------------------------------------------------------------------------
(* The rule table resolved for one year. *)

InitCal ==
    /\ year \in CalYears
    /\ resolved = <<>>
    /\ date = NoneObj
    /\ holiday_result = NoCall
    /\ peak_bool = NoCall
    /\ peak_text = NoCall
    /\ df = <<>>
    /\ df_in = <<>>
    /\ call = NoCallDF

ResolveRules ==
    /\ resolved = <<>>
    /\ resolved' = [i \in 1..Len(rules) |-> rule_date(rules[i], year)]
    /\ UNCHANGED <<date, holiday_result, peak_bool, peak_text, year, df, df_in, call>>

NextCal == ResolveRules

SpecCal == InitCal /\ [][NextCal]_vars

----------------------------------------------------------------------------
(* The annotator on one DataFrame. *)

InitDF ==
    /\ df \in DataFrames
    /\ df_in = df
    /\ call = NoCallDF
    /\ date = NoneObj
    /\ holiday_result = NoCall
    /\ peak_bool = NoCall
    /\ peak_text = NoCall
    /\ year = 0
    /\ resolved = <<>>

ApplyPeakOffPeak ==
    /\ call = NoCallDF
    /\ \E datetime_column \in ColumnNames, return_text \in BOOLEAN :
         LET out == apply_peak_offpeak(df, datetime_column, return_text)
         IN  /\ df_in' = df
             /\ df' = out.df
             /\ call' = [datetime_column |-> datetime_column,
                         return_text |-> return_text, exc |-> out.exc]
    /\ UNCHANGED <<date, holiday_result, peak_bool, peak_text, year, resolved>>

NextDF == ApplyPeakOffPeak

SpecDF == InitDF /\ [][NextDF]_vars

----------------------------------------------------------------------------
(* Properties. *)

\* the calendar day of d is one of the resolved holidays
IsHolidayDate(d) ==
    \E i \in 1..Len(rules), y \in (d.year - 1)..(d.year + 1) :
        rule_date(rules[i], y) = toordinal(d.year, d.month, d.day)

Called(outcome) == outcome.exc # "NoCall"

\* C1: on a date that is a resolved NERC holiday is_5x16_peak returns Off-Peak
\* at every hour of the day, in either rendering.
C1_HolidayIsOffPeak ==
    IsHolidayDate(date) =>
        /\ Called(peak_text) => peak_text = Return(Str("Off-Peak"))
        /\ Called(peak_bool) => peak_bool = Return(Bool(FALSE))

\* C2: on a date that is no NERC holiday is_5x16_peak returns Peak exactly
\* when the weekday is Monday..Friday and the hour is in 8..23, whatever the
\* minute.
C2_NonHolidayPeakIffWeekdayHour ==
    ~IsHolidayDate(date) =>
        /\ Called(peak_text) =>
             (peak_text = Return(Str("Peak"))
                <=> (weekday(date) < 5 /\ date.hour \in 8..23))
        /\ Called(peak_bool) =>
             (peak_bool = Return(Bool(TRUE))
                <=> (weekday(date) < 5 /\ date.hour \in 8..23))

\* C3: is_nerc_holiday has no error outcome: for every valid date and hour
\* the call returns a classification.
C3_NoErrorOutcome ==
    Called(holiday_result) =>
        /\ holiday_result.exc = "None"
        /\ holiday_result.ret \in {Bool(TRUE), Bool(FALSE)}

\* C8: the two renderings of is_5x16_peak agree: the text is "Peak" exactly
\* when the boolean is true, "Off-Peak" exactly when it is false, and nothing
\* else is returned.
C8_RenderingsAgree ==
    (Called(peak_text) /\ Called(peak_bool)) =>
        /\ peak_text = Return(Str("Peak")) <=> peak_bool = Return(Bool(TRUE))
        /\ peak_text = Return(Str("Off-Peak")) <=> peak_bool = Return(Bool(FALSE))
        /\ peak_text.exc = peak_bool.exc
        /\ peak_text.exc = "None" => peak_text.ret \in {Str("Peak"), Str("Off-Peak")}
        /\ peak_bool.exc = "None" => peak_bool.ret \in {Bool(TRUE), Bool(FALSE)}

\* 2024-07-03T10:00 is classified in both renderings: "Peak" and true
C8_Witness ==
    /\ date = Timestamp(2024, 7, 3, 10, 0)
    /\ peak_text = Return(Str("Peak"))
    /\ peak_bool = Return(Bool(TRUE))

\* the midnight of a December 31 whose following January 1 is a Saturday
IsObservedNewYearsEve(d) ==
    /\ d.month = 12 /\ d.day = 31 /\ d.hour = 0 /\ d.minute = 0
    /\ weekday_of(toordinal(d.year + 1, 1, 1)) = 5

\* C10 as stated: whenever is_nerc_holiday returns, it returns what the test
\* against the rules resolved for the date's own year alone returns.
C10_OwnYearSuffices ==
    holiday_result.exc = "None" =>
        holiday_result = is_nerc_holiday_own_year(date)

\* C10 amended: the own-year test gives the outcome of is_nerc_holiday except
\* in two cases: at the midnight of a December 31 whose following January 1
\* is a Saturday is_nerc_holiday returns true and the own-year test false,
\* and on February 29 is_nerc_holiday raises ValueError and the own-year test
\* returns false.
C10_OwnYearSufficesExcept ==
    Called(holiday_result) =>
        IF date.month = 2 /\ date.day = 29
        THEN /\ holiday_result = Raise("ValueError")
             /\ is_nerc_holiday_own_year(date) = Return(Bool(FALSE))
        ELSE IF IsObservedNewYearsEve(date)
        THEN /\ holiday_result = Return(Bool(TRUE))
             /\ is_nerc_holiday_own_year(date) = Return(Bool(FALSE))
        ELSE holiday_result = is_nerc_holiday_own_year(date)

\* 2021-12-31T00:00 is New Year's Day 2022 observed: a holiday by the window
C10_Witness ==
    /\ date = Timestamp(2021, 12, 31, 0, 0)
    /\ holiday_result = Return(Bool(TRUE))
    /\ is_nerc_holiday_own_year(date) = Return(Bool(FALSE))

\* the naive date of a fixed-date holiday in year y
NaiveDate(name, y) ==
    IF name = "New Year's Day" THEN toordinal(y, 1, 1)
    ELSE IF name = "Independence Day" THEN toordinal(y, 7, 4)
    ELSE toordinal(y, 12, 25)

FixedDateHolidays == {"New Year's Day", "Independence Day", "Christmas Day"}

RuleIndex(name) == CHOOSE i \in 1..Len(rules) : rules[i].name = name

\* C6: New Year's Day, Independence Day and Christmas Day of a year are never
\* observed on a Saturday or Sunday: the naive date when it is Monday..Friday,
\* the Friday before a Saturday, the Monday after a Sunday.
C6_ObservedOnWeekday ==
    resolved # <<>> =>
        \A name \in FixedDateHolidays :
            LET naive == NaiveDate(name, year)
                observed == resolved[RuleIndex(name)]
            IN  /\ weekday_of(observed) \in 0..4
                /\ weekday_of(naive) \in 0..4 => observed = naive
                /\ weekday_of(naive) = 5 =>
                     (observed = naive - 1 /\ weekday_of(observed) = 4)
                /\ weekday_of(naive) = 6 =>
                     (observed = naive + 1 /\ weekday_of(observed) = 0)

\* 2022: January 1 is a Saturday and December 25 a Sunday
C6_Witness ==
    /\ year = 2022
    /\ resolved # <<>>
    /\ resolved[RuleIndex("New Year's Day")] = toordinal(2021, 12, 31)
    /\ resolved[RuleIndex("Independence Day")] = toordinal(2022, 7, 4)
    /\ resolved[RuleIndex("Christmas Day")] = toordinal(2022, 12, 26)

\* the first day with the given weekday on or after an ordinal day
FirstOnOrAfter(ord, wd) == CHOOSE o \in ord..(ord + 6) : weekday_of(o) = wd

\* C7: Memorial Day is the last Monday of May, Labor Day the first Monday of
\* September, Thanksgiving the 4th Thursday of November: the first Thursday
\* on or after November 1 plus 21 days, always within November.
C7_FloatingHolidays ==
    resolved # <<>> =>
        LET memorial == resolved[RuleIndex("Memorial Day")]
            labor == resolved[RuleIndex("Labor Day")]
            thanksgiving == resolved[RuleIndex("Thanksgiving")]
        IN  /\ weekday_of(memorial) = 0
            /\ memorial <= toordinal(year, 5, 31)
            /\ memorial + 7 > toordinal(year, 5, 31)
            /\ weekday_of(labor) = 0
            /\ labor >= toordinal(year, 9, 1)
            /\ labor - 7 < toordinal(year, 9, 1)
            /\ weekday_of(thanksgiving) = 3
            /\ thanksgiving = FirstOnOrAfter(toordinal(year, 11, 1), 3) + 21
            /\ thanksgiving - 21 >= toordinal(year, 11, 1)
            /\ thanksgiving - 28 < toordinal(year, 11, 1)
            /\ thanksgiving <= toordinal(year, 11, 30)

\* 2024: May 27, September 2 and November 28
C7_Witness ==
    /\ year = 2024
    /\ resolved # <<>>
    /\ resolved[RuleIndex("Memorial Day")] = toordinal(2024, 5, 27)
    /\ resolved[RuleIndex("Labor Day")] = toordinal(2024, 9, 2)
    /\ resolved[RuleIndex("Thanksgiving")] = toordinal(2024, 11, 28)

NRows(frame) == IF frame = <<>> THEN 0 ELSE Len(frame[1].values)

\* C4: a successful apply_peak_offpeak returns the input's columns, each with
\* its values unchanged, plus exactly one new column "Peak_OffPeak" with one
\* value per row, also when the input has a column of that name.
C4_ExactlyOneNewColumn ==
    call.exc = "None" =>
        /\ columns(df) = Append(columns(df_in), "Peak_OffPeak")
        /\ \A i \in 1..Len(df_in) : i <= Len(df) /\ df[i] = df_in[i]
        /\ Len(df[Len(df)].values) = NRows(df_in)

\* C5: apply_peak_offpeak fails when the named column does not exist and when
\* a cell of it is no timestamp, and a failed call leaves the DataFrame as it
\* was: no new or partly filled "Peak_OffPeak" column.
C5_FailsOutright ==
    Called(call) =>
        /\ ~has_column(df_in, call.datetime_column) => call.exc = "KeyError"
        /\ ( /\ has_column(df_in, call.datetime_column)
             /\ \E r \in 1..NRows(df_in) :
                    getitem(df_in, call.datetime_column)[r].kind # "Timestamp" )
             => call.exc \in {"AttributeError", "ValueError"}
        /\ call.exc # "None" => df = df_in

\* the second row is the offending one: the first was classified, nothing
\* was written
C5_Witness ==
    /\ call.exc = "AttributeError"
    /\ call.datetime_column = "timestamp"
    /\ has_column(df_in, "timestamp")
    /\ getitem(df_in, "timestamp") = <<Timestamp(2024, 7, 3, 10, 0), Str("n/a")>>
    /\ df = df_in
    /\ ~has_column(df, "Peak_OffPeak")

\* C9: after a successful apply_peak_offpeak(df, col, return_text) the value
\* of "Peak_OffPeak" in every row is is_5x16_peak of that row's timestamp in
\* col with the caller's return_text.
C9_RowwiseClassification ==
    call.exc = "None" =>
        /\ has_column(df, "Peak_OffPeak")
        /\ LET src == getitem(df_in, call.datetime_column)
               out == getitem(df, "Peak_OffPeak")
           IN  /\ Len(out) = Len(src)
               /\ \A i \in 1..Len(src) :
                    Return(out[i]) = is_5x16_peak(src[i], call.return_text)

\* two rows, classified as text, each by its own timestamp
C9_Witness ==
    /\ call.exc = "None"
    /\ call.return_text
    /\ call.datetime_column = "timestamp"
    /\ getitem(df_in, "timestamp")
         = <<Timestamp(2024, 7, 6, 10, 0), Timestamp(2024, 7, 3, 10, 0)>>
    /\ getitem(df, "Peak_OffPeak") = <<Str("Off-Peak"), Str("Peak")>>

====
